---- MODULE Spec2Model ----
(***************************************************************************)
(* Model of safer-bytes: the SafeBuf extension trait (src/src/safe_buf.rs) *)
(* layered over a bytes::Buf cursor, the FromBuf hook (src/src/lib.rs) and *)
(* the error kinds (src/src/error.rs).                                     *)
(*                                                                         *)
(* A cursor is the sequence of its unread bytes.  A fixed-width integer    *)
(* value is kept as its sequence of 16-bit limbs, most significant first   *)
(* (one 8-bit limb for the single-byte types); the top limb of a signed    *)
(* type is the signed (two's complement) one.  The value denoted by limbs  *)
(* l[1..n] is l[1]*65536^(n-1) + ... + l[n].                               *)
(***************************************************************************)
EXTENDS Integers, Sequences, FiniteSets, TLC

VARIABLES buf, pre, last, dst, raw, pc, input

vars == <<buf, pre, last, dst, raw, pc, input>>

\* ------------------------------------------------------------------ bounds
\* The longest initial buffer, the number of byte patterns less one, how far a
\* requested length may exceed what remains, and the most reads of a decoder.
MaxLen == 17
MaxSeed == 3
MaxOver == 2
MaxReads == 2

\* A byte takes the values 0 .. ByteBase - 1.
ByteBase == 256

\* --------------------------------------------------------------- sequences
Take(b, n) == SubSeq(b, 1, n)
Drop(b, n) == SubSeq(b, n + 1, Len(b))
Reverse(s) == [i \in 1..Len(s) |-> s[Len(s) + 1 - i]]

\* ------------------------------------------------------------------- types
IntTypes == {"u8", "i8", "u16", "i16", "u32", "i32", "u64", "i64", "u128", "i128"}

Signed(t) == t \in {"i8", "i16", "i32", "i64", "i128"}

\* size_of::<t>(): the number of bytes the raw getter of type t consumes.
TypeWidth(t) ==
    CASE t \in {"u8", "i8"} -> 1
      [] t \in {"u16", "i16"} -> 2
      [] t \in {"u32", "i32"} -> 4
      [] t \in {"u64", "i64"} -> 8
      [] t \in {"u128", "i128"} -> 16

\* The width literal given to get_primitive_checked_be!, per type, with the
\* literal of u32 halved.
DeclaredWidthBeShortU32(t) ==
    CASE t = "u8" -> 1
      [] t = "i8" -> 1
      [] t = "u16" -> 2
      [] t = "i16" -> 2
      [] t = "u32" -> 2
      [] t = "i32" -> 4
      [] t = "u64" -> 8
      [] t = "i64" -> 8
      [] t = "u128" -> 16
      [] t = "i128" -> 16

\* The width literal given to get_primitive_checked_be!, per type.
DeclaredWidthBe(t) ==
    CASE t = "u8" -> 1
      [] t = "i8" -> 1
      [] t = "u16" -> 2
      [] t = "i16" -> 2
      [] t = "u32" -> 4
      [] t = "i32" -> 4
      [] t = "u64" -> 8
      [] t = "i64" -> 8
      [] t = "u128" -> 16
      [] t = "i128" -> 16

\* The width literal given to get_primitive_checked_le!, per type.
DeclaredWidthLe(t) ==
    CASE t = "u16" -> 2
      [] t = "i16" -> 2
      [] t = "u32" -> 4
      [] t = "i32" -> 4
      [] t = "u64" -> 8
      [] t = "i64" -> 8
      [] t = "u128" -> 16
      [] t = "i128" -> 16

\* The try_get_* methods the two macros generate: every type big-endian, every
\* multi-byte type little-endian as well.
Methods ==
    {<<t, "be">> : t \in IntTypes} \cup
    {<<t, "le">> : t \in IntTypes \ {"u8", "i8"}}

\* ------------------------------------------------------- integer encodings
NLimbs(t) == IF TypeWidth(t) = 1 THEN 1 ELSE TypeWidth(t) \div 2

LimbBase(t) == IF TypeWidth(t) = 1 THEN ByteBase ELSE ByteBase * ByteBase

\* Two's complement reading of the top limb of a signed type.
TopLimb(t, u) ==
    IF Signed(t) /\ 2 * u >= LimbBase(t) THEN u - LimbBase(t) ELSE u

\* <t>::from_be_bytes: the first byte is the most significant.
FromBeBytes(t, bs) ==
    IF TypeWidth(t) = 1
    THEN <<TopLimb(t, bs[1])>>
    ELSE [k \in 1..NLimbs(t) |->
            LET u == bs[2 * k - 1] * ByteBase + bs[2 * k]
            IN  IF k = 1 THEN TopLimb(t, u) ELSE u]

\* <t>::from_le_bytes: the first byte is the least significant.
FromLeBytes(t, bs) ==
    IF TypeWidth(t) = 1
    THEN <<TopLimb(t, bs[1])>>
    ELSE [k \in 1..NLimbs(t) |->
            LET w == TypeWidth(t)
                u == bs[w - 2 * k + 2] * ByteBase + bs[w - 2 * k + 1]
            IN  IF k = 1 THEN TopLimb(t, u) ELSE u]

\* <t>::to_be_bytes, as BufMut::put_<t> appends it.
ToBeBytes(t, v) ==
    IF TypeWidth(t) = 1
    THEN <<v[1] % ByteBase>>
    ELSE [i \in 1..TypeWidth(t) |->
            LET u == v[(i + 1) \div 2] % (ByteBase * ByteBase)
            IN  IF i % 2 = 1 THEN u \div ByteBase ELSE u % ByteBase]

\* <t>::to_le_bytes, as BufMut::put_<t>_le appends it.
ToLeBytes(t, v) ==
    IF TypeWidth(t) = 1
    THEN <<v[1] % ByteBase>>
    ELSE [i \in 1..TypeWidth(t) |->
            LET j == TypeWidth(t) + 1 - i
                u == v[(j + 1) \div 2] % (ByteBase * ByteBase)
            IN  IF j % 2 = 1 THEN u \div ByteBase ELSE u % ByteBase]

\* ------------------------------------------- the raw cursor (bytes::Buf)
\* One invocation of a raw, panicking primitive: the bytes it consumes and
\* the bytes that remained when it was invoked.
RawCall(name, need, avail) == [name |-> name, need |-> need, avail |-> avail]

\* Buf::get_<t> / Buf::get_<t>_le: panics when fewer than size_of::<t>() bytes
\* remain, else decodes the next size_of::<t>() bytes and advances over them.
RawGet(t, o, b) ==
    LET w == TypeWidth(t)
        call == RawCall("get_" \o t, w, Len(b))
    IN  IF Len(b) < w
        THEN [panic |-> TRUE, call |-> call, val |-> <<>>, buf |-> b]
        ELSE [panic |-> FALSE, call |-> call,
              val |-> IF o = "be" THEN FromBeBytes(t, Take(b, w))
                                  ELSE FromLeBytes(t, Take(b, w)),
              buf |-> Drop(b, w)]

\* Buf::copy_to_bytes(len): panics when len > remaining, else returns the next
\* len bytes and advances over them.
RawCopyToBytes(b, len) ==
    LET call == RawCall("copy_to_bytes", len, Len(b))
    IN  IF Len(b) < len
        THEN [panic |-> TRUE, call |-> call, out |-> <<>>, buf |-> b]
        ELSE [panic |-> FALSE, call |-> call, out |-> Take(b, len), buf |-> Drop(b, len)]

\* Buf::copy_to_slice(dst): panics when dst.len() > remaining, else fills dst
\* with the next dst.len() bytes and advances over them.
RawCopyToSlice(b, d) ==
    LET call == RawCall("copy_to_slice", Len(d), Len(b))
    IN  IF Len(b) < Len(d)
        THEN [panic |-> TRUE, call |-> call, dst |-> d, buf |-> b]
        ELSE [panic |-> FALSE, call |-> call, dst |-> Take(b, Len(d)), buf |-> Drop(b, Len(d))]

\* ------------------------------------------------------ SafeBuf operations
\* The result of a checked operation: ok/err is the Result, buf the cursor
\* afterwards, val a decoded integer, out a returned byte run, dst the
\* destination slice, obj a decoded object, raw the raw primitives invoked.
Failure(e, b, d, calls, p) ==
    [ok |-> FALSE, err |-> e, buf |-> b, val |-> <<>>, out |-> <<>>, dst |-> d,
     obj |-> <<>>, raw |-> calls, panic |-> p]

Success(b, v, o, d, x, calls) ==
    [ok |-> TRUE, err |-> "none", buf |-> b, val |-> v, out |-> o, dst |-> d,
     obj |-> x, raw |-> calls, panic |-> FALSE]

\* A panic inside a raw primitive unwinds out of the operation: no Result.
Panic(b, d, calls) == Failure("panic", b, d, calls, TRUE)

\* try_get_<t> with the bounds check off by one (> for >=).
TryGetBeStrict(t, b) ==
    IF Len(b) > DeclaredWidthBe(t)
    THEN LET g == RawGet(t, "be", b)
         IN  IF g.panic THEN Panic(b, <<>>, <<g.call>>)
             ELSE Success(g.buf, g.val, <<>>, <<>>, <<>>, <<g.call>>)
    ELSE Failure("Truncated", b, <<>>, <<>>, FALSE)

\* try_get_<t> calling the little-endian raw getter.
TryGetBeCallsLe(t, b) ==
    IF Len(b) >= DeclaredWidthBe(t)
    THEN LET g == RawGet(t, "le", b)
         IN  IF g.panic THEN Panic(b, <<>>, <<g.call>>)
             ELSE Success(g.buf, g.val, <<>>, <<>>, <<>>, <<g.call>>)
    ELSE Failure("Truncated", b, <<>>, <<>>, FALSE)

\* get_primitive_checked_be!: try_get_<t>.
TryGetBe(t, b) ==
    IF Len(b) >= DeclaredWidthBe(t)
    THEN LET g == RawGet(t, "be", b)
         IN  IF g.panic THEN Panic(b, <<>>, <<g.call>>)
             ELSE Success(g.buf, g.val, <<>>, <<>>, <<>>, <<g.call>>)
    ELSE Failure("Truncated", b, <<>>, <<>>, FALSE)

\* try_get_<t>_le calling the big-endian raw getter.
TryGetLeCallsBe(t, b) ==
    IF Len(b) >= DeclaredWidthLe(t)
    THEN LET g == RawGet(t, "be", b)
         IN  IF g.panic THEN Panic(b, <<>>, <<g.call>>)
             ELSE Success(g.buf, g.val, <<>>, <<>>, <<>>, <<g.call>>)
    ELSE Failure("Truncated", b, <<>>, <<>>, FALSE)

\* get_primitive_checked_le!: try_get_<t>_le.
TryGetLe(t, b) ==
    IF Len(b) >= DeclaredWidthLe(t)
    THEN LET g == RawGet(t, "le", b)
         IN  IF g.panic THEN Panic(b, <<>>, <<g.call>>)
             ELSE Success(g.buf, g.val, <<>>, <<>>, <<>>, <<g.call>>)
    ELSE Failure("Truncated", b, <<>>, <<>>, FALSE)

TryGet(t, o, b) == IF o = "be" THEN TryGetBe(t, b) ELSE TryGetLe(t, b)

\* try_copy_to_bytes that hands out what is left before reporting Truncated.
TryCopyToBytesDrain(b, len) ==
    IF Len(b) < len
    THEN LET c == RawCopyToBytes(b, Len(b))
         IN  Failure("Truncated", c.buf, <<>>, <<c.call>>, FALSE)
    ELSE LET c == RawCopyToBytes(b, len)
         IN  IF c.panic THEN Panic(b, <<>>, <<c.call>>)
             ELSE Success(c.buf, <<>>, c.out, <<>>, <<>>, <<c.call>>)

\* try_copy_to_bytes with the bounds check off by one (<= for <).
TryCopyToBytesOffByOne(b, len) ==
    IF Len(b) <= len
    THEN Failure("Truncated", b, <<>>, <<>>, FALSE)
    ELSE LET c == RawCopyToBytes(b, len)
         IN  IF c.panic THEN Panic(b, <<>>, <<c.call>>)
             ELSE Success(c.buf, <<>>, c.out, <<>>, <<>>, <<c.call>>)

\* try_copy_to_bytes keeping the head and returning the tail (split_off for
\* split_to).
TryCopyToBytesSplitOff(b, len) ==
    IF Len(b) < len
    THEN Failure("Truncated", b, <<>>, <<>>, FALSE)
    ELSE Success(Take(b, len), <<>>, Drop(b, len), <<>>, <<>>,
                 <<RawCall("split_off", len, Len(b))>>)

\* SafeBuf::try_copy_to_bytes.
TryCopyToBytes(b, len) ==
    IF Len(b) < len
    THEN Failure("Truncated", b, <<>>, <<>>, FALSE)
    ELSE LET c == RawCopyToBytes(b, len)
         IN  IF c.panic THEN Panic(b, <<>>, <<c.call>>)
             ELSE Success(c.buf, <<>>, c.out, <<>>, <<>>, <<c.call>>)

\* SafeBuf::try_copy_to_slice.
TryCopyToSlice(b, d) ==
    IF Len(b) < Len(d)
    THEN Failure("Truncated", b, d, <<>>, FALSE)
    ELSE LET c == RawCopyToSlice(b, d)
         IN  IF c.panic THEN Panic(b, d, <<c.call>>)
             ELSE Success(c.buf, <<>>, <<>>, c.dst, <<>>, <<c.call>>)

\* should_be_exhausted with the test inverted.
ShouldBeExhaustedInverted(b) ==
    IF Len(b) > 0
    THEN Success(b, <<>>, <<>>, <<>>, <<>>, <<>>)
    ELSE Failure("ExtraneousBytes", b, <<>>, <<>>, FALSE)

\* SafeBuf::should_be_exhausted (has_remaining() is remaining() > 0).
ShouldBeExhausted(b) ==
    IF Len(b) > 0
    THEN Failure("ExtraneousBytes", b, <<>>, <<>>, FALSE)
    ELSE Success(b, <<>>, <<>>, <<>>, <<>>, <<>>)

\* ---------------------------------------------------- FromBuf and extract
\* The implementers of FromBuf are the callers' types.  A decodable type T is
\* given by the checked reads its from_buf performs in order, each followed by
\* `?`, and by the read (check, 0 for none) whose value it validates, failing
\* with Error::Deserialization when the value is odd.
DecoderMethods == {<<"u8", "be">>, <<"u16", "le">>}

Decoders ==
    UNION {{[reads |-> r, check |-> c] : c \in 0..Len(r)} :
            r \in UNION {[1..n -> DecoderMethods] : n \in 0..MaxReads}}

NoDecoder == [reads |-> <<>>, check |-> 0]

Invalid(v) == v[Len(v)] % 2 = 1

\* T::from_buf(buffer) from its i-th read on, the cursor being b, the fields
\* read so far vals and the raw primitives invoked so far calls.
RECURSIVE FromBufFrom(_, _, _, _, _)
FromBufFrom(T, i, b, vals, calls) ==
    IF i > Len(T.reads)
    THEN Success(b, <<>>, <<>>, <<>>, vals, calls)
    ELSE LET r == TryGet(T.reads[i][1], T.reads[i][2], b)
         IN  IF r.panic THEN Panic(r.buf, <<>>, calls \o r.raw)
             ELSE IF ~r.ok THEN Failure("Truncated", r.buf, <<>>, calls \o r.raw, FALSE)
             ELSE IF T.check = i /\ Invalid(r.val)
                  THEN Failure("Deserialization", r.buf, <<>>, calls \o r.raw, FALSE)
             ELSE FromBufFrom(T, i + 1, r.buf, Append(vals, r.val), calls \o r.raw)

\* FromBuf::from_buf, run on the cursor it is handed.
FromBuf(T, b) == FromBufFrom(T, 1, b, <<>>, <<>>)

\* extract handing from_buf a clone of the cursor.
ExtractOnCopy(T, b) == [FromBuf(T, b) EXCEPT !.buf = b]

\* extract restoring the cursor when from_buf fails.
ExtractRollback(T, b) ==
    LET r == FromBuf(T, b) IN IF r.ok THEN r ELSE [r EXCEPT !.buf = b]

\* SafeBuf::extract: T::from_buf(self), self being the caller's &mut cursor.
Extract(T, b) == FromBuf(T, b)

\* ------------------------------------------------------------------ state
\* buf    the cursor's unread bytes
\* pre    the unread bytes before the last operation
\* last   the last operation: its name, arguments and Result
\* dst    the destination slice after the last operation, when it took one
\* raw    the raw primitives the last operation invoked
\* pc     "run" for a cursor being read; new/put/got/done in the round trip
\* input  the value the round trip wrote
Gen(seed, i) == (seed * 85 + i * 77) % ByteBase

\* The buffer of tests::try_copy_to_bytes and tests::try_copy_to_slice.
TestBuf == <<0, 1, 2, 3, 4, 5, 6, 7, 8, 9>>

\* The cursors the program starts from; reads take them to every shorter
\* length.
InitBufs ==
    {[i \in 1..MaxLen |-> Gen(s, i)] : s \in 0..MaxSeed} \cup {TestBuf, <<>>}

\* A caller's destination slice of n bytes, as it is before the call.
DstInit(n) == [i \in 1..n |-> 238]

Record(op, t, o, len, T, d0, r) ==
    [op |-> op, type |-> t, order |-> o, len |-> len, dec |-> T, dst0 |-> d0,
     ok |-> r.ok, err |-> r.err, val |-> r.val, out |-> r.out, obj |-> r.obj,
     panic |-> r.panic]

NoOp == Record("none", "none", "none", 0, NoDecoder, <<>>,
               Success(<<>>, <<>>, <<>>, <<>>, <<>>, <<>>))

Init ==
    /\ buf \in InitBufs
    /\ pre = buf
    /\ last = NoOp
    /\ dst = <<>>
    /\ raw = <<>>
    /\ pc = "run"
    /\ input = <<>>

\* A panic unwinds: the program performs no further operation on the cursor.
Panicked == last.panic

\* The effect of one operation with result r on the cursor.
Apply(op, t, o, len, T, d0, r) ==
    /\ ~Panicked
    /\ pre' = buf
    /\ buf' = r.buf
    /\ raw' = r.raw
    /\ dst' = r.dst
    /\ last' = Record(op, t, o, len, T, d0, r)

TryGetAct ==
    \E m \in Methods :
        /\ pc = "run"
        /\ Apply("try_get", m[1], m[2], 0, NoDecoder, <<>>, TryGet(m[1], m[2], buf))
        /\ UNCHANGED <<pc, input>>

TryCopyToBytesAct ==
    \E len \in 0..(Len(buf) + MaxOver) :
        /\ pc = "run"
        /\ Apply("try_copy_to_bytes", "none", "none", len, NoDecoder, <<>>,
                 TryCopyToBytes(buf, len))
        /\ UNCHANGED <<pc, input>>

TryCopyToSliceAct ==
    \E n \in 0..(Len(buf) + MaxOver) :
        LET d == DstInit(n)
        IN  /\ pc = "run"
            /\ Apply("try_copy_to_slice", "none", "none", n, NoDecoder, d,
                     TryCopyToSlice(buf, d))
            /\ UNCHANGED <<pc, input>>

ExtractAct ==
    \E T \in Decoders :
        /\ pc = "run"
        /\ Apply("extract", "none", "none", 0, T, <<>>, Extract(T, buf))
        /\ UNCHANGED <<pc, input>>

ShouldBeExhaustedAct ==
    /\ pc = "run"
    /\ Apply("should_be_exhausted", "none", "none", 0, NoDecoder, <<>>,
             ShouldBeExhausted(buf))
    /\ UNCHANGED <<pc, input>>

Next ==
    \/ TryGetAct
    \/ TryCopyToBytesAct
    \/ TryCopyToSliceAct
    \/ ExtractAct
    \/ ShouldBeExhaustedAct

Spec == Init /\ [][Next]_vars

\* ------------------------------------------------------------- round trip
\* tests::round_trip_<t>: BytesMut::new(), put_<t>(input), try_get_<t>()
\* twice; and the same with the _le pair.
RtLimbs == {0, 17, 65244}

TypeValues(t) ==
    {[k \in 1..NLimbs(t) |-> IF k = 1 THEN TopLimb(t, f[k]) ELSE f[k]] :
        f \in [1..NLimbs(t) ->
                 IF TypeWidth(t) = 1 THEN 0..(ByteBase - 1) ELSE RtLimbs]}

\* BufMut::put_<t> / put_<t>_le: appends the encoding to the buffer.
Put(t, o, v, b) == b \o (IF o = "be" THEN ToBeBytes(t, v) ELSE ToLeBytes(t, v))

InitRT ==
    /\ buf = <<>>
    /\ pre = <<>>
    /\ last = NoOp
    /\ dst = <<>>
    /\ raw = <<>>
    /\ pc = "new"
    /\ input = <<>>

RtPut ==
    /\ pc = "new"
    /\ \E m \in Methods : \E v \in TypeValues(m[1]) :
        /\ pc' = "put"
        /\ input' = v
        /\ pre' = buf
        /\ buf' = Put(m[1], m[2], v, buf)
        /\ last' = Record("put", m[1], m[2], 0, NoDecoder, <<>>,
                          Success(<<>>, <<>>, <<>>, <<>>, <<>>, <<>>))
        /\ dst' = <<>>
        /\ raw' = <<>>

RtGet ==
    /\ pc = "put"
    /\ pc' = "got"
    /\ Apply("try_get", last.type, last.order, 0, NoDecoder, <<>>,
             TryGet(last.type, last.order, buf))
    /\ UNCHANGED input

RtGetAgain ==
    /\ pc = "got"
    /\ pc' = "done"
    /\ Apply("try_get", last.type, last.order, 0, NoDecoder, <<>>,
             TryGet(last.type, last.order, buf))
    /\ UNCHANGED input

NextRT == RtPut \/ RtGet \/ RtGetAgain

SpecRT == InitRT /\ [][NextRT]_vars

\* ================================================================ claims
IsSuffix(s, b) == Len(s) <= Len(b) /\ s = Drop(b, Len(b) - Len(s))

CheckedReads == {"try_get", "try_copy_to_bytes", "try_copy_to_slice"}

\* The number of bytes the last checked read asked for.
Requested ==
    IF last.op = "try_get" THEN TypeWidth(last.type) ELSE last.len

\* The bytes the first k reads of decoder T take together.
RECURSIVE WidthSum(_, _)
WidthSum(T, k) ==
    IF k = 0 THEN 0 ELSE WidthSum(T, k - 1) + TypeWidth(T.reads[k][1])

\* C1: a checked read (try_get_*, try_copy_to_bytes, try_copy_to_slice) that
\* asks for more bytes than remain returns Truncated, invokes no raw
\* primitive, and leaves the unread bytes (and the destination slice) exactly
\* as they were.
NoPartialAdvanceOnFailure ==
    (last.op \in CheckedReads /\ Requested > Len(pre)) =>
        /\ ~last.ok
        /\ last.err = "Truncated"
        /\ buf = pre
        /\ raw = <<>>
        /\ last.op = "try_copy_to_slice" => dst = last.dst0

\* The scenario of tests::try_copy_to_bytes: 2 of the 10 bytes remain, 4 are
\* asked for, and 2 still remain.
ThirdCopyFails ==
    /\ last.op = "try_copy_to_bytes"
    /\ last.len = 4
    /\ pre = <<8, 9>>
    /\ last.err = "Truncated"
    /\ Len(buf) = 2

\* C2: every raw, panicking primitive of the cursor is invoked with at least
\* as many bytes remaining as it consumes, so no operation panics.
RawPreconditionsHold ==
    /\ ~last.panic
    /\ \A i \in 1..Len(raw) : raw[i].avail >= raw[i].need

\* A raw 16-byte getter invoked with exactly 16 bytes remaining.
RawCallAtBoundary ==
    /\ last.op = "try_get"
    /\ Len(raw) = 1
    /\ raw[1].need = 16
    /\ raw[1].avail = 16

\* C3: a checked fixed-width read succeeds exactly when at least W bytes
\* remain, W the byte width of the returned type; on success remaining drops
\* by exactly W, otherwise the result is Truncated and remaining is unchanged.
BoundaryExactness ==
    last.op = "try_get" =>
        LET W == TypeWidth(last.type)
        IN  /\ ~last.panic
            /\ last.ok <=> Len(pre) >= W
            /\ last.ok => Len(buf) = Len(pre) - W
            /\ ~last.ok => last.err = "Truncated" /\ Len(buf) = Len(pre)

\* A 16-byte read with 15 bytes remaining fails and leaves 15; equally at
\* the other widths, and try_get_u8 fails on the empty cursor.
OneByteShort ==
    /\ last.op = "try_get"
    /\ Len(pre) = TypeWidth(last.type) - 1
    /\ last.err = "Truncated"
    /\ Len(buf) = Len(pre)
    /\ last.type \in {"u8", "i128"}

\* C4: from an empty buffer, put_<t> (put_<t>_le) of V followed by the
\* matching try_get_<t> (try_get_<t>_le) returns V and leaves the buffer
\* empty, and a second such read fails.
RoundTrip ==
    /\ pc = "got" => last.ok /\ last.val = input /\ buf = <<>>
    /\ pc = "done" => ~last.ok /\ last.err = "Truncated" /\ buf = <<>>

\* The round trip of a negative i128 in little-endian order, run to its end.
RoundTripDone ==
    /\ pc = "done"
    /\ last.type = "i128"
    /\ last.order = "le"
    /\ input[1] < 0
    /\ input[8] = 17

\* C5: should_be_exhausted succeeds exactly when nothing remains, returns
\* ExtraneousBytes otherwise, and in both cases neither moves the cursor nor
\* touches a raw consuming primitive.
ExhaustionCheck ==
    last.op = "should_be_exhausted" =>
        /\ last.ok <=> Len(pre) = 0
        /\ Len(pre) > 0 => last.err = "ExtraneousBytes"
        /\ buf = pre
        /\ raw = <<>>

\* should_be_exhausted called on a cursor with bytes left, after a read.
ExtraneousSeen ==
    /\ last.op = "should_be_exhausted"
    /\ last.err = "ExtraneousBytes"
    /\ Len(buf) > 0
    /\ Len(buf) < MaxLen

\* C6: with len <= remaining, try_copy_to_bytes(len) returns the next len
\* unread bytes and advances by len, and try_copy_to_slice(dst) fills dst with
\* the next dst.len() unread bytes and advances by dst.len(); the length
\* checked, copied and advanced are the same.
ByteRunExtraction ==
    (last.op \in {"try_copy_to_bytes", "try_copy_to_slice"} /\ last.len <= Len(pre)) =>
        LET got == IF last.op = "try_copy_to_bytes" THEN last.out ELSE dst
        IN  /\ last.ok
            /\ Len(got) = last.len
            /\ got = Take(pre, last.len)
            /\ buf = Drop(pre, last.len)
            /\ Len(raw) = 1
            /\ raw[1].need = last.len
            /\ last.op = "try_copy_to_slice" => Len(dst) = Len(last.dst0)

\* A byte run of everything that remains, and an empty one.
WholeRunTaken ==
    /\ last.op \in {"try_copy_to_bytes", "try_copy_to_slice"}
    /\ last.ok
    /\ \/ last.len = Len(pre) /\ Len(pre) > 2
       \/ last.len = 0 /\ Len(pre) > 0

\* C7, as claimed: when extract returns an error the cursor is as it was
\* before the call.
ExtractErrorLeavesCursor ==
    (last.op = "extract" /\ ~last.ok) => buf = pre

\* C7, amended: when extract returns an error, the cursor has advanced over
\* exactly the bytes of the nested reads that succeeded before the error: the
\* failing read itself took nothing, and nothing is rolled back.
ExtractErrorKeepsProgress ==
    (last.op = "extract" /\ ~last.ok) =>
        LET T == last.dec
        IN  /\ last.err \in {"Truncated", "Deserialization"}
            /\ last.err = "Truncated" =>
                 \E k \in 1..Len(T.reads) :
                    /\ WidthSum(T, k) > Len(pre)
                    /\ WidthSum(T, k - 1) <= Len(pre)
                    /\ buf = Drop(pre, WidthSum(T, k - 1))
            /\ last.err = "Deserialization" =>
                 /\ T.check >= 1
                 /\ buf = Drop(pre, WidthSum(T, T.check))

\* Truncated from the second read, and Deserialization after a read, each
\* with the first read's bytes gone from the cursor.
ExtractFailedMidway ==
    /\ last.op = "extract"
    /\ ~last.ok
    /\ Len(buf) < Len(pre)
    /\ Len(last.dec.reads) = 2

\* C8: extract returns the Result of T::from_buf run on the caller's cursor
\* and does nothing else: no raw call of its own, no advance of its own; on
\* success the cursor stands at the first byte after T's encoding and the
\* object holds the fields decoded from that encoding.
ExtractDelegates ==
    last.op = "extract" =>
        LET T == last.dec
            r == FromBuf(T, pre)
            n == Len(T.reads)
        IN  /\ last.ok = r.ok
            /\ last.err = r.err
            /\ last.obj = r.obj
            /\ buf = r.buf
            /\ raw = r.raw
            /\ last.ok =>
                 /\ buf = Drop(pre, WidthSum(T, n))
                 /\ Len(last.obj) = n
                 /\ Len(raw) = n
                 /\ \A i \in 1..n :
                      last.obj[i] =
                        TryGet(T.reads[i][1], T.reads[i][2],
                               Drop(pre, WidthSum(T, i - 1))).val

\* A two-field object extracted with bytes left over for the next read.
ExtractedTwoFields ==
    /\ last.op = "extract"
    /\ last.ok
    /\ Len(last.obj) = 2
    /\ Len(buf) > 0
    /\ Len(pre) = Len(buf) + 3

\* C9: no SafeBuf operation makes remaining grow, and the unread bytes after
\* each operation are a suffix of the unread bytes before it.
MonotonicCursor ==
    [][Len(buf') <= Len(buf) /\ IsSuffix(buf', buf)]_vars

\* A cursor advanced by an earlier read to 5 unread bytes (no cursor starts
\* there) and advanced again by extract.
AdvancedTwice ==
    /\ Len(pre) = 5
    /\ Len(buf) < Len(pre)
    /\ last.op = "extract"

\* C10: a successful try_get_<t> returns the value whose big-endian encoding
\* is the W bytes read, try_get_<t>_le the value whose little-endian encoding
\* they are, signed types in two's complement; each is the other applied to
\* the reversed bytes; the single-byte reads come in one order only.
ByteOrderDecoding ==
    (last.op = "try_get" /\ last.ok) =>
        LET t == last.type
            W == TypeWidth(t)
            bs == Take(pre, W)
            v == last.val
            msb == IF last.order = "be" THEN bs[1] ELSE bs[W]
            lsb == IF last.order = "be" THEN bs[W] ELSE bs[1]
        IN  /\ last.order \in {"be", "le"}
            /\ W = 1 => last.order = "be"
            /\ Len(v) = NLimbs(t)
            /\ \A k \in 2..Len(v) : v[k] \in 0..(LimbBase(t) - 1)
            /\ IF Signed(t)
               THEN 2 * v[1] >= -LimbBase(t) /\ 2 * v[1] < LimbBase(t)
               ELSE v[1] \in 0..(LimbBase(t) - 1)
            /\ last.order = "be" => ToBeBytes(t, v) = bs
            /\ last.order = "le" => ToLeBytes(t, v) = bs
            /\ last.order = "be" => v = FromLeBytes(t, Reverse(bs))
            /\ last.order = "le" => v = FromBeBytes(t, Reverse(bs))
            /\ Signed(t) => (v[1] < 0 <=> msb >= 128)
            /\ v[Len(v)] % 256 = lsb
            /\ t = "u8" => v[1] = bs[1]
            /\ t = "i8" => v[1] = IF bs[1] >= 128 THEN bs[1] - 256 ELSE bs[1]
            /\ t = "u16" => v[1] = 256 * msb + lsb
            /\ t = "i16" => v[1] = IF msb >= 128 THEN 256 * msb + lsb - 65536
                                                 ELSE 256 * msb + lsb

\* A negative i16 read in little-endian order from bytes that are positive
\* when read in big-endian order.
NegativeLittleEndian ==
    /\ last.op = "try_get"
    /\ last.ok
    /\ last.type = "i16"
    /\ last.order = "le"
    /\ last.val[1] < 0
    /\ pre[1] < 128

====
